---- MODULE Spec2Model ----
(***************************************************************************)
(* Model of streamlit_personal_assistant.py: the Streamlit script that     *)
(* turns the widget values into a prompt and hands it to call_openai.      *)
(* Streamlit re-executes the whole script on every widget interaction; one *)
(* action of this model is one such execution of the script.               *)
(* Python strings are TLA+ strings handled character by character with     *)
(* Len, SubSeq and \o.  Temperatures are counted in tenths (0.7 is 7).     *)
(* The two imports the script makes while it runs (openai in call_openai,  *)
(* PyPDF2 in the tutor branch) and the backend's behaviour are the world   *)
(* of one execution: a record the execution is given.                      *)
(***************************************************************************)
EXTENDS Integers, Sequences, FiniteSets, TLC

VARIABLES
    OPENAI_API_KEY,     \* os.getenv("OPENAI_API_KEY", None)
    mode,               \* sidebar radio
    user_tone,          \* sidebar selectbox
    max_tokens,         \* sidebar slider
    temperature,        \* sidebar slider, in tenths
    transform,          \* selectbox of Fun Transform, else None
    topic,              \* selectbox of Motivation, else None
    style,              \* selectbox of Notes Organizer, else None
    input_text,         \* the text area
    notes_file,         \* the uploader of Q&A Chat (Tutor), else None
    run_button,         \* TRUE in the execution the Run button triggered
    context_text,       \* the notes context of the last execution
    calls,              \* the invocations of call_openai in the last execution
    requests,           \* the requests that reached the backend in the last execution
    shown,              \* what the last execution rendered below the Run button
    uncaught,           \* the exception that ended the last execution, or None
    observed,           \* what the last execution met outside the script: the
                        \* two imports and the backend, each where it got to it
    probe               \* argument and result of a helper applied on its own

vars == <<OPENAI_API_KEY, mode, user_tone,
          max_tokens, temperature, transform, topic, style, input_text,
          notes_file, run_button, context_text, calls, requests, shown,
          uncaught, observed, probe>>

widgets == <<mode, user_tone, max_tokens, temperature, transform, topic, style,
             input_text, notes_file>>

None == "None"

(***************************************************************************)
(* Python's str operations, on ASCII text.                                 *)
(***************************************************************************)
Char(s, i) == SubSeq(s, i, i)

SetMin(S) == CHOOSE x \in S : \A y \in S : x <= y

SetMax(S) == CHOOSE x \in S : \A y \in S : x >= y

ascii_uppercase == "ABCDEFGHIJKLMNOPQRSTUVWXYZ"

ascii_lowercase == "abcdefghijklmnopqrstuvwxyz"

Whitespace == {" ", "\t", "\n", "\r", "\f"}

lower_char(c) ==
    IF \E i \in 1..Len(ascii_uppercase) : Char(ascii_uppercase, i) = c
    THEN Char(ascii_lowercase,
              CHOOSE i \in 1..Len(ascii_uppercase) : Char(ascii_uppercase, i) = c)
    ELSE c

RECURSIVE str_lower(_)
str_lower(s) ==
    IF Len(s) = 0 THEN ""
    ELSE lower_char(Char(s, 1)) \o str_lower(SubSeq(s, 2, Len(s)))

str_strip(s) ==
    LET keep == {i \in 1..Len(s) : Char(s, i) \notin Whitespace}
    IN  IF keep = {} THEN "" ELSE SubSeq(s, SetMin(keep), SetMax(keep))

\* Python's `sub in s`
str_contains(sub, s) ==
    \E i \in 1..(Len(s) - Len(sub) + 1) : SubSeq(s, i, i + Len(sub) - 1) = sub

\* Python's truth value of a string or None
Truthy(s) == s # None /\ s # ""

Ok(v) == [exc |-> None, value |-> v]

Raise(e) == [exc |-> e, value |-> None]

\* str.format(**kwargs) from position i of the template: literal text is
\* copied, "{{" and "}}" are the escaped braces, "{name}" is replaced by
\* kwargs[name] (KeyError when absent); the inserted value is not scanned again.
RECURSIVE format_from(_, _, _)
format_from(t, i, kwargs) ==
    LET braces == {j \in i..Len(t) : Char(t, j) \in {"{", "}"}}
    IN  IF braces = {} THEN Ok(SubSeq(t, i, Len(t)))
        ELSE
        LET b == SetMin(braces)
            lit == SubSeq(t, i, b - 1)
            then(piece, k) ==
                LET rest == format_from(t, k, kwargs)
                IN  IF rest.exc # None THEN rest
                    ELSE Ok(lit \o piece \o rest.value)
        IN  IF b < Len(t) /\ Char(t, b + 1) = Char(t, b)
            THEN then(Char(t, b), b + 2)
            ELSE IF Char(t, b) = "}"
            THEN Raise("ValueError: Single '}' encountered in format string")
            ELSE
            LET closes == {j \in (b + 1)..Len(t) : Char(t, j) = "}"}
            IN  IF closes = {}
                THEN Raise("ValueError: expected '}' before end of string")
                ELSE
                LET c == SetMin(closes)
                    name == SubSeq(t, b + 1, c - 1)
                IN  IF name \notin DOMAIN kwargs
                    THEN Raise("KeyError: " \o name)
                    ELSE then(kwargs[name], c + 1)

format(t, kwargs) == format_from(t, 1, kwargs)

(***************************************************************************)
(* Configuration and the template table.                                   *)
(***************************************************************************)
OPENAI_MODEL == "gpt-4o-mini"

PROMPTS == [
    summarize |-> "Summarize the following text into a short, clear summary (3-6 lines). Keep it simple and friendly: \n\n{input}",
    improve |-> "Improve the following text so it sounds polished, professional, and concise. Keep original meaning:\n\n{input}",
    explain_simple |-> "Explain the following concept like I'm {age} years old. Use simple language, examples, and a short summary at the end:\n\n{input}",
    shakespeare |-> "Turn this into Shakespearean-style language, with poetic phrasing and a touch of humor:\n\n{input}",
    rap |-> "Turn this into a short rap verse (4-8 lines), keeping the original message and making it catchy and rhythmic:\n\n{input}",
    meme |-> "Turn the input into a short meme-style caption or text suitable for social media (one-liners or 2-sentence punchlines):\n\n{input}",
    sarcastic |-> "Turn this into a sarcastic version, with witty and ironic remarks:\n\n{input}",
    roast |-> "Turn this into a light-hearted roast, poking fun in a playful way:\n\n{input}",
    pirate |-> "Turn this into pirate speak, with 'arr' and nautical terms:\n\n{input}",
    yoda |-> "Turn this into Yoda speak, like 'Do or do not, there is no try':\n\n{input}",
    cowboy |-> "Turn this into cowboy speak, with 'howdy' and western slang:\n\n{input}",
    poem |-> "Turn this into a short poem (4-8 lines), keeping the original message:\n\n{input}",
    timeline |-> "Convert the following notes into a chronological timeline of events or key points:\n\n{input}",
    flashcards |-> "Create flashcards from the following notes (question: answer format):\n\n{input}",
    motivation |-> "Write a short, relatable motivational quote for a student about: {topic}. Keep it friendly and shareable (one or two lines).",
    creativity_story |-> "Write a short (200-300 word) story about: {topic}. Keep it engaging and end with a twist.",
    creativity_joke |-> "Write a short, wholesome joke about: {topic}.",
    notes_bullets |-> "Convert the following lecture notes into concise bullet points capturing the key ideas, terms, and actions to remember:\n\n{input}",
    mindmap_like |-> "Given the following notes, return a short hierarchical list that could be turned into a mind map (root -> 3 main branches -> 2 subpoints each):\n\n{input}",
    qa_tutor |-> "You are a helpful tutor. Answer the question in a clear and friendly way, include one quick example and a 2-line summary at the end. If the user asks for step-by-step, provide numbered steps. Question:\n\n{input}"
]

\* PROMPTS[key].format(**kwargs); a key the table lacks is a KeyError
resolve(key, kwargs) ==
    IF key \notin DOMAIN PROMPTS THEN Raise("KeyError: " \o key)
    ELSE format(PROMPTS[key], kwargs)

(***************************************************************************)
(* The widgets' options and the values the model lets the user enter.      *)
(***************************************************************************)
Modes == {"Summarize", "Improve Text", "Fun Transform", "Motivation",
          "Notes Organizer", "Q&A Chat (Tutor)"}

Tones == <<"Friendly", "Formal", "Casual", "Funny">>

Transforms == <<"Shakespeare", "Rap", "Meme", "Sarcastic", "Roast", "Pirate",
                "Yoda", "Cowboy", "Poem">>

Topics == <<"studying", "procrastination", "stress", "success", "friendship">>

Styles == <<"Bullets", "Mindmap-style", "Timeline", "Flashcards">>

Range(f) == {f[i] : i \in DOMAIN f}

\* slider positions the model visits (the sliders run 100..1200 and 0.0..1.2)
MaxTokensValues == {100, 400}

TemperatureValues == {0, 7}

MaxWords == 2

MaxPages == 2

SeqsUpTo(S, n) == UNION {[1..k -> S] : k \in 0..n}

RECURSIVE concat(_)
concat(ws) == IF ws = <<>> THEN "" ELSE Head(ws) \o concat(Tail(ws))

Words == {" ", "KiLl"}

SampleTexts == {"I am tired", "\n\t ", "a bomb", "SUICIDE", "what is {input}?"}

InputTexts == SampleTexts \cup {concat(ws) : ws \in SeqsUpTo(Words, MaxWords)}

\* What an upload is: nothing, a text file (its bytes), or a PDF as PyPDF2
\* sees it (unreadable as a whole, or a list of pages whose extract_text()
\* returns a text or raises).
NoFile == [type |-> None]

TxtFile(bytes) == [type |-> "text/plain", bytes |-> bytes]

PdfFile(corrupt, pages) ==
    [type |-> "application/pdf", corrupt |-> corrupt, pages |-> pages]

PageText(t) == [exc |-> None, text |-> t]

PageFails == [exc |-> "extract_text failed", text |-> None]

Pages == {PageText("alpha"), PageFails}

hello_world == <<104, 101, 108, 108, 111, 10, 119, 111, 114, 108, 100>>

TxtUploads == {TxtFile(<<>>), TxtFile(hello_world), TxtFile(<<104, 105, 255>>)}

SamplePdfs == {PdfFile(TRUE, <<>>),
               PdfFile(FALSE, <<PageText("alpha"), PageText("beta")>>),
               PdfFile(FALSE, <<PageText("")>>)}

PdfUploads == SamplePdfs
              \cup {PdfFile(FALSE, ps) : ps \in SeqsUpTo(Pages, MaxPages)}

Uploads == TxtUploads \cup PdfUploads

\* What the backend does with a request: raises, or answers with a message
\* whose content is a text or None.
BackendRaises(e) == [exc |-> e, content |-> None]

BackendAnswers(c) == [exc |-> None, content |-> c]

BackendOutcomes == {BackendAnswers(" Sure!\n"), BackendAnswers(None),
                    BackendRaises("Connection error.")}

\* The world of one execution: whether each import succeeds, and the backend.
Worlds == [openai : BOOLEAN, PyPDF2 : BOOLEAN, backend : BackendOutcomes]

NotReached == "not reached"

Unreached == [reached |-> FALSE]

\* what an execution notes of an import it made
Import(ok) == IF ok THEN "imported" ELSE "ImportError"

Unobserved == [openai |-> NotReached, PyPDF2 |-> NotReached, backend |-> Unreached]

(***************************************************************************)
(* call_openai                                                             *)
(***************************************************************************)
Returned(v, reqs, backend) ==
    [exc |-> None, value |-> v, requests |-> reqs, backend |-> backend]

\* resp.choices[0].message.content.strip()
read_response(backend) ==
    IF backend.exc # None THEN Raise(backend.exc)
    ELSE IF backend.content = None
    THEN Raise("'NoneType' object has no attribute 'strip'")
    ELSE Ok(str_strip(backend.content))

\* the second try block without its except clause
request_completion_uncaught(request, backend) ==
    LET resp == read_response(backend)
    IN  [exc |-> resp.exc, value |-> resp.value, requests |-> <<request>>,
         backend |-> backend]

\* the second try block with one more attempt after a failure
request_completion_retry(request, backend) ==
    LET resp == read_response(backend)
    IN  IF resp.exc # None
        THEN Returned("OpenAI API error: " \o resp.exc, <<request, request>>, backend)
        ELSE Returned(resp.value, <<request>>, backend)

\* the second try block: one create() call, whose exceptions become a text
request_completion(request, backend) ==
    LET resp == read_response(backend)
    IN  IF resp.exc # None
        THEN Returned("OpenAI API error: " \o resp.exc, <<request>>, backend)
        ELSE Returned(resp.value, <<request>>, backend)

build_messages(prompt, system) ==
    (IF Truthy(system) THEN <<[role |-> "system", content |-> system]>> ELSE <<>>)
    \o <<[role |-> "user", content |-> prompt]>>

\* the text returned when `import openai` fails (the source quotes the pip
\* command in backquotes, which a TLA+ string cannot hold)
PACKAGE_MISSING ==
    "Error: openai package not installed. Install with 'pip install openai'."

\* call_openai without the check of the key
call_openai_unchecked_key(prompt, system, temp, maxtok, world) ==
    IF ~world.openai
    THEN Returned(PACKAGE_MISSING, <<>>, Unreached)
    ELSE request_completion([model |-> OPENAI_MODEL,
                             messages |-> build_messages(prompt, system),
                             temperature |-> temp,
                             max_tokens |-> maxtok], world.backend)

call_openai(prompt, system, temp, maxtok, world) ==
    IF ~world.openai
    THEN Returned(PACKAGE_MISSING, <<>>, Unreached)
    ELSE IF ~Truthy(OPENAI_API_KEY)
    THEN Returned("Error: OPENAI_API_KEY not set.", <<>>, Unreached)
    ELSE request_completion([model |-> OPENAI_MODEL,
                             messages |-> build_messages(prompt, system),
                             temperature |-> temp,
                             max_tokens |-> maxtok], world.backend)

(***************************************************************************)
(* simple_filter and apply_tone                                            *)
(***************************************************************************)
banned == {"bomb", "kill", "suicide"}

\* simple_filter without the lower() of the text
simple_filter_case_sensitive(text) ==
    ~ \E b \in banned : str_contains(b, text)

simple_filter(text) ==
    LET lower == str_lower(text)
    IN  ~ \E b \in banned : str_contains(b, lower)

\* apply_tone with the directive put before the prompt
apply_tone_prepend(prompt, tone) ==
    IF tone = "Friendly" THEN "Keep the tone friendly and encouraging.\n" \o prompt
    ELSE IF tone = "Formal" THEN "Use a formal and professional tone.\n" \o prompt
    ELSE IF tone = "Casual" THEN "Use a casual, chatty tone with short sentences.\n" \o prompt
    ELSE IF tone = "Funny" THEN "Add light humor where appropriate.\n" \o prompt
    ELSE prompt

apply_tone(prompt, tone) ==
    IF tone = "Friendly" THEN prompt \o "\nKeep the tone friendly and encouraging."
    ELSE IF tone = "Formal" THEN prompt \o "\nUse a formal and professional tone."
    ELSE IF tone = "Casual" THEN prompt \o "\nUse a casual, chatty tone with short sentences."
    ELSE IF tone = "Funny" THEN prompt \o "\nAdd light humor where appropriate."
    ELSE prompt

(***************************************************************************)
(* Notes extraction of Q&A Chat (Tutor)                                    *)
(***************************************************************************)
digits == "0123456789"

\* the character of an ASCII code, for the codes the modelled uploads hold
chr(b) ==
    CASE b = 9 -> "\t"
      [] b = 10 -> "\n"
      [] b = 13 -> "\r"
      [] b = 32 -> " "
      [] b \in 48..57 -> Char(digits, b - 47)
      [] b \in 65..90 -> Char(ascii_uppercase, b - 64)
      [] b \in 97..122 -> Char(ascii_lowercase, b - 96)

\* bytes.decode("utf-8") of an upload: ASCII bytes decode to their characters;
\* the bytes above 127 of the modelled uploads start no valid sequence
RECURSIVE decode_utf8(_)
decode_utf8(bytes) ==
    IF bytes = <<>> THEN Ok("")
    ELSE IF Head(bytes) > 127
    THEN Raise("'utf-8' codec can't decode byte")
    ELSE LET rest == decode_utf8(Tail(bytes))
         IN  IF rest.exc # None THEN rest
             ELSE Ok(chr(Head(bytes)) \o rest.value)

\* the loop over the pages with each page put before what was gathered
RECURSIVE read_pages_reversed(_, _)
read_pages_reversed(pages, gathered) ==
    IF pages = <<>> THEN [exc |-> None, context |-> gathered]
    ELSE IF Head(pages).exc # None
    THEN [exc |-> Head(pages).exc, context |-> gathered]
    ELSE read_pages_reversed(Tail(pages), Head(pages).text \o "\n" \o gathered)

\* for page in pdf_reader.pages: context_text += page.extract_text() + "\n"
\* The text gathered before a page raises stays in context_text.
RECURSIVE read_pages(_, _)
read_pages(pages, gathered) ==
    IF pages = <<>> THEN [exc |-> None, context |-> gathered]
    ELSE IF Head(pages).exc # None
    THEN [exc |-> Head(pages).exc, context |-> gathered]
    ELSE read_pages(Tail(pages), gathered \o Head(pages).text \o "\n")

Extracted(context, errors, imported) ==
    [context |-> context, errors |-> errors, PyPDF2 |-> imported]

Shown(widget, body) == [widget |-> widget, body |-> body]

reading_error(e) == <<Shown("error", "Error reading notes file: " \o e)>>

extract_notes(file, world) ==
    IF file = NoFile THEN Extracted("", <<>>, NotReached)
    ELSE IF ~world.PyPDF2
    THEN Extracted("", <<Shown("error", "PyPDF2 module not installed. Please install it to enable PDF file uploads.")>>,
                   Import(FALSE))
    ELSE IF file.type = "application/pdf"
    THEN IF file.corrupt
         THEN Extracted("", reading_error("EOF marker not found"), Import(TRUE))
         ELSE LET read == read_pages(file.pages, "")
              IN  Extracted(read.context,
                            IF read.exc # None THEN reading_error(read.exc) ELSE <<>>,
                            Import(TRUE))
    ELSE LET text == decode_utf8(file.bytes)
         IN  IF text.exc # None
             THEN Extracted("", reading_error(text.exc), Import(TRUE))
             ELSE Extracted(text.value, <<>>, Import(TRUE))

(***************************************************************************)
(* Run logic                                                               *)
(***************************************************************************)
\* the style chain with the second comparison misspelt
notes_key_typo ==
    IF style = "Bullets" THEN "notes_bullets"
    ELSE IF style = "Mindmap" THEN "mindmap_like"
    ELSE IF style = "Timeline" THEN "timeline"
    ELSE IF style = "Flashcards" THEN "flashcards"
    ELSE "notes_bullets"

notes_key ==
    IF style = "Bullets" THEN "notes_bullets"
    ELSE IF style = "Mindmap-style" THEN "mindmap_like"
    ELSE IF style = "Timeline" THEN "timeline"
    ELSE IF style = "Flashcards" THEN "flashcards"
    ELSE "notes_bullets"

\* the key each branch looks up in PROMPTS
template_key ==
    CASE mode = "Summarize" -> "summarize"
      [] mode = "Improve Text" -> "improve"
      [] mode = "Fun Transform" -> str_lower(transform)
      [] mode = "Motivation" -> "motivation"
      [] mode = "Notes Organizer" -> notes_key
      [] mode = "Q&A Chat (Tutor)" -> "qa_tutor"

\* every branch passing the input text, the Motivation branch too
substitutions_input_only == [input |-> input_text]

\* the keyword arguments each branch passes to format
substitutions ==
    IF mode = "Motivation" THEN [topic |-> topic] ELSE [input |-> input_text]

\* the prompt that replaces the tutor template when there is a notes context
notes_prompt(context) ==
    "Use the following notes to answer the question simply and understandably:\n"
    \o context \o "\nQuestion:\n" \o input_text

\* the prompt of the selected mode, before the tone is applied
mode_prompt(context) ==
    LET resolved == resolve(template_key, substitutions)
    IN  IF resolved.exc # None THEN resolved
        ELSE IF mode = "Q&A Chat (Tutor)" /\ Truthy(context)
        THEN Ok(notes_prompt(context))
        ELSE resolved

\* the temperature argument left to call_openai's default of 0.7
call_temperature_default == IF mode = "Notes Organizer" THEN 3 ELSE 7

\* the temperature argument of the branch's call_openai
call_temperature == IF mode = "Notes Organizer" THEN 3 ELSE temperature

\* the max_tokens argument of the branch's call_openai
call_max_tokens == IF mode = "Motivation" THEN 80 ELSE max_tokens

\* what each branch renders from the returned text (the source's Motivation
\* label starts with an emoji, left out here)
render(resp) ==
    CASE mode = "Summarize" -> <<Shown("markdown", "**Summary:**\n" \o resp)>>
      [] mode = "Improve Text" ->
            <<Shown("subheader", "Improved text"), Shown("code", resp)>>
      [] mode = "Fun Transform" ->
            <<Shown("markdown", "**" \o transform \o " version:**\n" \o resp)>>
      [] mode = "Motivation" -> <<Shown("markdown", "**Quote:** " \o resp)>>
      [] mode = "Notes Organizer" -> <<Shown("markdown", resp)>>
      [] mode = "Q&A Chat (Tutor)" -> <<Shown("markdown", resp)>>

Executed(context, cs, reqs, out, exc, met) ==
    [context_text |-> context, calls |-> cs, requests |-> reqs, shown |-> out,
     uncaught |-> exc, observed |-> met]

Call(prompt, temp, maxtok, returned) ==
    [prompt |-> prompt, temperature |-> temp, max_tokens |-> maxtok,
     returned |-> returned]

\* the branch of the selected mode: build the prompt, call, render
run_mode(world) ==
    LET notes == IF mode = "Q&A Chat (Tutor)" THEN extract_notes(notes_file, world)
                 ELSE Extracted("", <<>>, NotReached)
        built == mode_prompt(notes.context)
    IN  IF built.exc # None
        THEN Executed(notes.context, <<>>, <<>>, notes.errors, built.exc,
                      [Unobserved EXCEPT !.PyPDF2 = notes.PyPDF2])
        ELSE
        LET prompt == apply_tone(built.value, user_tone)
            resp == call_openai(prompt, "", call_temperature, call_max_tokens, world)
        IN  Executed(notes.context,
                     <<Call(prompt, call_temperature, call_max_tokens, resp.value)>>,
                     resp.requests,
                     notes.errors \o (IF resp.exc = None THEN render(resp.value) ELSE <<>>),
                     resp.exc,
                     [openai |-> Import(world.openai), PyPDF2 |-> notes.PyPDF2,
                      backend |-> resp.backend])

\* `if run_button:` with the button pressed
run_logic(world) ==
    IF str_strip(input_text) = ""
    THEN Executed("", <<>>, <<>>,
                  <<Shown("warning", "Please paste some text or a question first.")>>,
                  None, Unobserved)
    ELSE IF ~simple_filter(input_text)
    THEN Executed("", <<>>, <<>>,
                  <<Shown("error", "Your input triggers the simple safety filter. Please modify and try again.")>>,
                  None, Unobserved)
    ELSE IF mode \in Modes THEN run_mode(world)
    ELSE Executed("", <<>>, <<>>, <<Shown("text", "Mode not implemented yet.")>>,
                  None, Unobserved)

(***************************************************************************)
(* The executions of the script                                            *)
(***************************************************************************)
NoProbe == [fn |-> None]

\* an execution some other widget than the Run button triggered renders nothing
NothingRun ==
    /\ run_button' = FALSE
    /\ context_text' = ""
    /\ calls' = <<>>
    /\ requests' = <<>>
    /\ shown' = <<>>
    /\ uncaught' = None
    /\ observed' = Unobserved

\* the widgets' defaults, before any execution
Start ==
    /\ mode = "Summarize"
    /\ user_tone = Tones[1]
    /\ max_tokens = 400
    /\ temperature = 7
    /\ transform = None
    /\ topic = None
    /\ style = None
    /\ input_text = ""
    /\ notes_file = NoFile
    /\ run_button = FALSE
    /\ context_text = ""
    /\ calls = <<>>
    /\ requests = <<>>
    /\ shown = <<>>
    /\ uncaught = None
    /\ observed = Unobserved

Init ==
    /\ OPENAI_API_KEY \in {None, "", "sk-test"}
    /\ Start
    /\ probe = NoProbe

SelectMode ==
    \E m \in Modes :
        /\ m # mode
        /\ mode' = m
        /\ transform' = IF m = "Fun Transform" THEN Transforms[1] ELSE None
        /\ topic' = IF m = "Motivation" THEN Topics[1] ELSE None
        /\ style' = IF m = "Notes Organizer" THEN Styles[1] ELSE None
        /\ notes_file' = NoFile
        /\ NothingRun
        /\ UNCHANGED <<OPENAI_API_KEY, user_tone, max_tokens, temperature, input_text, probe>>

SelectTone ==
    \E t \in Range(Tones) :
        /\ user_tone' = t
        /\ NothingRun
        /\ UNCHANGED <<OPENAI_API_KEY, mode, max_tokens, temperature, transform, topic, style,
                       input_text, notes_file, probe>>

SlideMaxTokens ==
    \E n \in MaxTokensValues :
        /\ max_tokens' = n
        /\ NothingRun
        /\ UNCHANGED <<OPENAI_API_KEY, mode, user_tone, temperature, transform, topic, style,
                       input_text, notes_file, probe>>

SlideTemperature ==
    \E t \in TemperatureValues :
        /\ temperature' = t
        /\ NothingRun
        /\ UNCHANGED <<OPENAI_API_KEY, mode, user_tone, max_tokens, transform, topic, style,
                       input_text, notes_file, probe>>

SelectTransform ==
    /\ mode = "Fun Transform"
    /\ \E t \in Range(Transforms) : transform' = t
    /\ NothingRun
    /\ UNCHANGED <<OPENAI_API_KEY, mode, user_tone, max_tokens, temperature, topic, style,
                   input_text, notes_file, probe>>

SelectTopic ==
    /\ mode = "Motivation"
    /\ \E t \in Range(Topics) : topic' = t
    /\ NothingRun
    /\ UNCHANGED <<OPENAI_API_KEY, mode, user_tone, max_tokens, temperature, transform, style,
                   input_text, notes_file, probe>>

SelectStyle ==
    /\ mode = "Notes Organizer"
    /\ \E s \in Range(Styles) : style' = s
    /\ NothingRun
    /\ UNCHANGED <<OPENAI_API_KEY, mode, user_tone, max_tokens, temperature, transform, topic,
                   input_text, notes_file, probe>>

EditInput ==
    \E t \in InputTexts :
        /\ input_text' = t
        /\ NothingRun
        /\ UNCHANGED <<OPENAI_API_KEY, mode, user_tone, max_tokens, temperature, transform,
                       topic, style, notes_file, probe>>

UploadNotes ==
    /\ mode = "Q&A Chat (Tutor)"
    /\ \E f \in Uploads \cup {NoFile} : notes_file' = f
    /\ NothingRun
    /\ UNCHANGED <<OPENAI_API_KEY, mode, user_tone, max_tokens, temperature, transform, topic,
                   style, input_text, probe>>

\* "Show example prompts" and "Download last output as .txt"
ClickSidebarButton ==
    /\ NothingRun
    /\ UNCHANGED <<OPENAI_API_KEY, widgets, probe>>

ClickRun ==
    \E world \in Worlds :
        \E done \in {run_logic(world)} :
            /\ run_button' = TRUE
            /\ context_text' = done.context_text
            /\ calls' = done.calls
            /\ requests' = done.requests
            /\ shown' = done.shown
            /\ uncaught' = done.uncaught
            /\ observed' = done.observed
            /\ UNCHANGED <<OPENAI_API_KEY, widgets, probe>>

Next ==
    \/ SelectMode
    \/ SelectTone
    \/ SlideMaxTokens
    \/ SlideTemperature
    \/ SelectTransform
    \/ SelectTopic
    \/ SelectStyle
    \/ EditInput
    \/ UploadNotes
    \/ ClickSidebarButton
    \/ ClickRun

Spec == Init /\ [][Next]_vars

(***************************************************************************)
(* apply_tone on its own, applied to any prompt and any tone value         *)
(***************************************************************************)
TonePrompts == {PROMPTS[k] : k \in DOMAIN PROMPTS} \cup {"", "I am tired"}

ToneValues == Range(Tones) \cup {"", "friendly", "FORMAL", "Sarcastic", None}

InitTone ==
    /\ OPENAI_API_KEY = None
    /\ Start
    /\ probe = NoProbe

ApplyTone ==
    /\ \E p \in TonePrompts, t \in ToneValues :
        probe' = [fn |-> "apply_tone", prompt |-> p, tone |-> t,
                  result |-> apply_tone(p, t)]
    /\ UNCHANGED <<OPENAI_API_KEY, widgets, run_button, context_text, calls,
                   requests, shown, uncaught, observed>>

SpecTone == InitTone /\ [][ApplyTone]_vars

(***************************************************************************)
(* The properties                                                          *)
(***************************************************************************)
SameLetter(a, b) ==
    \/ a = b
    \/ \E n \in 1..Len(ascii_uppercase) :
          {a, b} = {Char(ascii_uppercase, n), Char(ascii_lowercase, n)}

ContainsIgnoringCase(word, text) ==
    \E i \in 1..(Len(text) - Len(word) + 1) :
        \A k \in 1..Len(word) : SameLetter(Char(text, i + k - 1), Char(word, k))

IsBlank(text) == \A i \in 1..Len(text) : Char(text, i) \in Whitespace

Admitted ==
    /\ ~IsBlank(input_text)
    /\ \A word \in {"bomb", "kill", "suicide"} : ~ContainsIgnoringCase(word, input_text)

\* C1: an execution the Run button triggered invokes call_openai if and only
\* if the input text is not blank and holds no banned word in any letter case;
\* a blank or banned input reaches neither call_openai nor the backend, in
\* whatever mode.
C1_AdmissionDecidesCall ==
    run_button =>
        /\ (calls # <<>>) <=> Admitted
        /\ ~Admitted => (requests = <<>> /\ observed = Unobserved)

C1_BannedMixedCaseRejected ==
    /\ run_button
    /\ ContainsIgnoringCase("kill", input_text)
    /\ ~str_contains("kill", input_text)
    /\ mode = "Q&A Chat (Tutor)"
    /\ calls = <<>>

BackendFailed == observed.backend # Unreached /\
                 (observed.backend.exc # None \/ observed.backend.content = None)

FailureCause ==
    IF observed.backend.exc # None THEN observed.backend.exc
    ELSE "'NoneType' object has no attribute 'strip'"

\* C2: call_openai never raises: no execution ends with an exception, and when
\* the backend raised or its response could not be read the call returned the
\* text "OpenAI API error: <cause>", which the execution rendered as its
\* result before it ended normally.
C2_CallNeverRaises ==
    run_button =>
        /\ uncaught = None
        /\ BackendFailed =>
            /\ Len(calls) = 1
            /\ calls[1].returned = "OpenAI API error: " \o FailureCause
            /\ shown # <<>>
            /\ shown[Len(shown)].widget \in {"markdown", "code"}

C2_BackendFailureReturned ==
    /\ run_button
    /\ BackendFailed
    /\ observed.backend.exc = "Connection error."
    /\ calls[1].returned = "OpenAI API error: Connection error."

NoCredential == OPENAI_API_KEY \in {None, ""}

\* C3 as stated: without a credential every call_openai returns the
\* CredentialMissing text and no request reaches the backend, whether or not
\* the client library can be imported.
C3_NoKeyGivesCredentialMissing ==
    (run_button /\ NoCredential /\ calls # <<>>) =>
        /\ calls[1].returned = "Error: OPENAI_API_KEY not set."
        /\ requests = <<>>

\* C3 amended: without a credential no request reaches the backend, and
\* call_openai returns the CredentialMissing text when the client library was
\* imported and the library-missing text when it was not.
C3_NoKeyNeverReachesBackend ==
    (run_button /\ NoCredential /\ calls # <<>>) =>
        /\ requests = <<>>
        /\ observed.backend = Unreached
        /\ calls[1].returned =
              IF observed.openai = "imported" THEN "Error: OPENAI_API_KEY not set."
              ELSE PACKAGE_MISSING

C3_NoKeyNoLibrary ==
    /\ run_button
    /\ OPENAI_API_KEY = ""
    /\ calls # <<>>
    /\ observed.openai = "ImportError"

\* C4: an execution issues at most one backend request: exactly one when the
\* Run button was pressed, the input is admitted, the client library was
\* imported and the credential is set, none otherwise; a failed request is
\* not repeated, and an execution without the Run button calls nothing.
C4_AtMostOneRequest ==
    /\ Len(requests) <= 1
    /\ Len(calls) <= 1
    /\ (Len(requests) = 1) <=>
          (run_button /\ Admitted /\ observed.openai = "imported" /\ ~NoCredential)
    /\ ~run_button => calls = <<>>

C4_FailedRequestNotRepeated ==
    /\ run_button
    /\ BackendFailed
    /\ Len(requests) = 1

DefinedTones == {"Friendly", "Formal", "Casual", "Funny"}

\* C5: apply_tone only appends: for each of the four defined tones the result
\* starts with the unmodified prompt and is strictly longer; for any other
\* tone value the result is the prompt itself.
C5_ToneOnlyAppends ==
    probe.fn = "apply_tone" =>
        IF probe.tone \in DefinedTones
        THEN /\ Len(probe.result) > Len(probe.prompt)
             /\ SubSeq(probe.result, 1, Len(probe.prompt)) = probe.prompt
        ELSE probe.result = probe.prompt

C5_CasualAppended ==
    /\ probe.fn = "apply_tone"
    /\ probe.tone = "Casual"
    /\ probe.prompt = "I am tired"
    /\ probe.result = "I am tired\nUse a casual, chatty tone with short sentences."

Occurrences(m, s) ==
    Cardinality({i \in 1..(Len(s) - Len(m) + 1) : SubSeq(s, i, i + Len(m) - 1) = m})

\* the braces in the values the execution interpolated
TypedBraces(brace) ==
    IF mode = "Motivation" THEN Occurrences(brace, topic)
    ELSE Occurrences(brace, input_text) + Occurrences(brace, context_text)

\* C6: for every mode and every value of its selector, an admitted input is
\* resolved without a failure (no missing key, no missing substitution) and
\* the prompt handed to call_openai holds no placeholder marker of a template:
\* its only braces are the ones of the interpolated values.
C6_TemplatesResolve ==
    (run_button /\ Admitted) =>
        /\ uncaught = None
        /\ Len(calls) = 1
        /\ \A brace \in {"{", "}"} :
              Occurrences(brace, calls[1].prompt) = TypedBraces(brace)

C6_MotivationResolved ==
    /\ run_button
    /\ mode = "Motivation"
    /\ topic = "stress"
    /\ input_text = "what is {input}?"
    /\ Len(calls) = 1
    /\ Occurrences("{", calls[1].prompt) = 0

UploadFails(file) ==
    IF file.type = "application/pdf"
    THEN file.corrupt \/ \E i \in DOMAIN file.pages : file.pages[i].exc # None
    ELSE \E i \in DOMAIN file.bytes : file.bytes[i] > 127

ExtractionFailed ==
    /\ notes_file # NoFile
    /\ observed.PyPDF2 = "ImportError" \/ UploadFails(notes_file)

\* the template with the first occurrence of the marker replaced by the value
Replace(t, marker, value) ==
    LET at == {i \in 1..(Len(t) - Len(marker) + 1) :
                  SubSeq(t, i, i + Len(marker) - 1) = marker}
    IN  IF at = {} THEN t
        ELSE SubSeq(t, 1, SetMin(at) - 1) \o value
             \o SubSeq(t, SetMin(at) + Len(marker), Len(t))

ToneSuffix(tone) ==
    CASE tone = "Friendly" -> "\nKeep the tone friendly and encouraging."
      [] tone = "Formal" -> "\nUse a formal and professional tone."
      [] tone = "Casual" -> "\nUse a casual, chatty tone with short sentences."
      [] tone = "Funny" -> "\nAdd light humor where appropriate."

TransformKey == [Shakespeare |-> "shakespeare", Rap |-> "rap", Meme |-> "meme",
                 Sarcastic |-> "sarcastic", Roast |-> "roast", Pirate |-> "pirate",
                 Yoda |-> "yoda", Cowboy |-> "cowboy", Poem |-> "poem"]

StyleKey ==
    CASE style = "Bullets" -> "notes_bullets"
      [] style = "Mindmap-style" -> "mindmap_like"
      [] style = "Timeline" -> "timeline"
      [] style = "Flashcards" -> "flashcards"

SelectedKey ==
    CASE mode = "Summarize" -> "summarize"
      [] mode = "Improve Text" -> "improve"
      [] mode = "Fun Transform" -> TransformKey[transform]
      [] mode = "Motivation" -> "motivation"
      [] mode = "Notes Organizer" -> StyleKey
      [] mode = "Q&A Chat (Tutor)" -> "qa_tutor"

\* the selected template with the user's value in it, then the tone's suffix
TemplatePrompt ==
    (IF mode = "Motivation" THEN Replace(PROMPTS[SelectedKey], "{topic}", topic)
     ELSE Replace(PROMPTS[SelectedKey], "{input}", input_text))
    \o ToneSuffix(user_tone)

\* the prompt the tutor branch builds around a notes context
NotesPrompt ==
    "Use the following notes to answer the question simply and understandably:\n"
    \o context_text \o "\nQuestion:\n" \o input_text \o ToneSuffix(user_tone)

ErrorShown == \E i \in DOMAIN shown : shown[i].widget = "error"

\* C7: in tutor mode, whenever the extraction of an upload fails (unreadable
\* document, undecodable text, an exception on any page, missing PyPDF2) the
\* error is shown, the context is empty and call_openai is invoked with the
\* plain tutor-template prompt.
C7_FailedExtractionMeansNoContext ==
    (run_button /\ mode = "Q&A Chat (Tutor)" /\ Admitted /\ ExtractionFailed) =>
        /\ ErrorShown
        /\ context_text = ""
        /\ Len(calls) = 1
        /\ calls[1].prompt = TemplatePrompt

RECURSIVE JoinPages(_)
JoinPages(pages) ==
    IF pages = <<>> THEN ""
    ELSE IF Len(pages) = 1 THEN pages[1].text
    ELSE pages[1].text \o "\n" \o JoinPages(Tail(pages))

RECURSIVE TerminatedPages(_)
TerminatedPages(pages) ==
    IF pages = <<>> THEN ""
    ELSE pages[1].text \o "\n" \o TerminatedPages(Tail(pages))

IsDecodedText(text, bytes) ==
    /\ Len(text) = Len(bytes)
    /\ \A i \in 1..Len(bytes) : Char(text, i) = chr(bytes[i])

SuccessfulRead ==
    /\ run_button
    /\ mode = "Q&A Chat (Tutor)"
    /\ Admitted
    /\ notes_file # NoFile
    /\ observed.PyPDF2 = "imported"
    /\ ~UploadFails(notes_file)

TextUploadDecoded ==
    /\ IsDecodedText(context_text, notes_file.bytes)
    /\ notes_file = TxtFile(hello_world) => context_text = "hello\nworld"

\* C8 as stated: a successfully read upload yields its content in order: a
\* text document its decoded text, a paginated document the texts of its
\* pages in page order, separated by newlines.
C8_PagesSeparatedByNewlines ==
    SuccessfulRead =>
        IF notes_file.type = "application/pdf"
        THEN context_text = JoinPages(notes_file.pages)
        ELSE TextUploadDecoded

\* C8 amended: a text document yields its decoded text, a paginated document
\* the texts of its pages in page order, each followed by a newline.
C8_PagesEachEndWithNewline ==
    SuccessfulRead =>
        IF notes_file.type = "application/pdf"
        THEN context_text = TerminatedPages(notes_file.pages)
        ELSE TextUploadDecoded

C8_TwoPagesInOrder ==
    /\ SuccessfulRead
    /\ notes_file = PdfFile(FALSE, <<PageText("alpha"), PageText("beta")>>)
    /\ context_text = "alpha\nbeta\n"

SentPrompt(expected) ==
    /\ calls[1].prompt = expected
    /\ requests # <<>> =>
          requests[1].messages = <<[role |-> "user", content |-> expected]>>

\* C9 as stated: in every mode the prompt handed to call_openai is the
\* selected template of the table with the user's value interpolated,
\* followed by the suffix of the selected tone, and nothing else.
C9_PromptIsTemplatePlusTone ==
    (run_button /\ calls # <<>>) => SentPrompt(TemplatePrompt)

\* C9 amended: the prompt is the selected template with the user's value
\* interpolated, followed by the tone's suffix, except in tutor mode with a
\* non-empty notes context, where it is the notes prompt (the fixed notes
\* preamble, the context, the question) followed by the tone's suffix.
C9_PromptIsTemplateOrNotesPrompt ==
    (run_button /\ calls # <<>>) =>
        IF mode = "Q&A Chat (Tutor)" /\ context_text # ""
        THEN SentPrompt(NotesPrompt)
        ELSE SentPrompt(TemplatePrompt)

C9_PirateCasual ==
    /\ run_button
    /\ mode = "Fun Transform"
    /\ transform = "Pirate"
    /\ input_text = "I am tired"
    /\ user_tone = "Casual"
    /\ calls # <<>>
    /\ calls[1].prompt = "Turn this into pirate speak, with 'arr' and nautical terms:\n\nI am tired\nUse a casual, chatty tone with short sentences."

SentParameters(temp, maxtok) ==
    /\ calls[1].temperature = temp
    /\ calls[1].max_tokens = maxtok
    /\ requests # <<>> =>
          (requests[1].temperature = temp /\ requests[1].max_tokens = maxtok)

\* C10 as stated: in every mode the request carries the temperature and the
\* maximum length the sliders show.
C10_SlidersReachBackend ==
    (run_button /\ calls # <<>>) => SentParameters(temperature, max_tokens)

\* C10 amended: the request carries the sliders' temperature and maximum
\* length, except that Motivation always sends the maximum length 80 and
\* Notes Organizer always sends the temperature 0.3.
C10_SlidersExceptFixedValues ==
    (run_button /\ calls # <<>>) =>
        SentParameters(IF mode = "Notes Organizer" THEN 3 ELSE temperature,
                       IF mode = "Motivation" THEN 80 ELSE max_tokens)

C10_MotivationSendsEighty ==
    /\ run_button
    /\ mode = "Motivation"
    /\ max_tokens = 400
    /\ temperature = 0
    /\ requests # <<>>
    /\ requests[1].max_tokens = 80
    /\ requests[1].temperature = 0

====
